---- MODULE Spec2Model ----
(***************************************************************************)
(* Model of src/index.js: the Rwanda locations populator.                  *)
(*                                                                         *)
(* readCsvFile streams the rows of the CSV file into an array, main hands  *)
(* the array to populateLocations, which sorts it by administrative level  *)
(* and posts one saveLocation request per record, one at a time, with a    *)
(* pause after each.                                                       *)
(*                                                                         *)
(* JavaScript strings are modelled as sequences of one-character strings,  *)
(* so that trim, toUpperCase, indexOf and encodeURIComponent are computed  *)
(* rather than assumed.  A property that a row does not carry reads as     *)
(* the value undefined.                                                    *)
(***************************************************************************)
EXTENDS Integers, Sequences, FiniteSets, TLC

\* ------------------------------------------------------------------ bounds
\* Largest number of data rows the CSV file holds.
MaxRows == 3

\* ------------------------------------------------------- JavaScript values
\* The value of a property that the row object does not have.  Every real
\* string is a sequence of ONE-character strings, so this value is no string.
undefined == <<"undefined">>

IsString(v) == v # undefined

\* ToBoolean of a string-or-undefined value: undefined and '' are falsy.
Truthy(v) == IsString(v) /\ v # <<>>

lowerChars == <<"a","b","c","d","e","f","g","h","i","j","k","l","m",
                "n","o","p","q","r","s","t","u","v","w","x","y","z">>
upperChars == <<"A","B","C","D","E","F","G","H","I","J","K","L","M",
                "N","O","P","Q","R","S","T","U","V","W","X","Y","Z">>
digitChars == <<"0","1","2","3","4","5","6","7","8","9">>

SeqToSet(s) == {s[i] : i \in 1..Len(s)}

SetMin(S) == CHOOSE x \in S : \A y \in S : x <= y
SetMax(S) == CHOOSE x \in S : \A y \in S : y <= x

\* String.prototype.toUpperCase, one character.
upperChar(c) ==
  IF c \in SeqToSet(lowerChars)
    THEN upperChars[CHOOSE i \in 1..Len(lowerChars) : lowerChars[i] = c]
    ELSE c

\* String.prototype.toUpperCase.
toUpperCase(s) == [i \in 1..Len(s) |-> upperChar(s[i])]

WhiteSpace == {" ", "\t"}

\* String.prototype.trim: drops leading and trailing white space.
trim(s) ==
  LET keep == {i \in 1..Len(s) : s[i] \notin WhiteSpace}
  IN  IF keep = {} THEN <<>> ELSE SubSeq(s, SetMin(keep), SetMax(keep))

\* Array.prototype.indexOf: zero-based index of the first match, else -1.
indexOf(arr, x) ==
  LET hits == {i \in 1..Len(arr) : arr[i] = x}
  IN  IF hits = {} THEN -1 ELSE SetMin(hits) - 1

\* Characters encodeURIComponent leaves alone.
UriUnreserved ==
  SeqToSet(lowerChars) \cup SeqToSet(upperChars) \cup SeqToSet(digitChars)
    \cup {"-", "_", ".", "!", "~", "*", "'", "(", ")"}

\* The UTF-8 percent escape of the other characters that occur in the input.
percentEscape(c) ==
  CASE c = " "  -> <<"%","2","0">>
    [] c = "%"  -> <<"%","2","5">>
    [] c = "&"  -> <<"%","2","6">>
    [] c = "="  -> <<"%","3","D">>
    [] c = "?"  -> <<"%","3","F">>
    [] c = "\t" -> <<"%","0","9">>

RECURSIVE encodeURIComponent(_)
encodeURIComponent(s) ==
  IF s = <<>> THEN <<>>
  ELSE (IF Head(s) \in UriUnreserved THEN <<Head(s)>> ELSE percentEscape(Head(s)))
         \o encodeURIComponent(Tail(s))

\* ------------------------------------------------------------ configuration
API_BASE_URL ==
  <<"h","t","t","p",":","/","/","l","o","c","a","l","h","o","s","t",":",
    "8","0","8","1","/","a","p","i","/","h","e","c","/",
    "l","o","c","a","t","i","o","n">>

saveLocationPath == <<"/","s","a","v","e","L","o","c","a","t","i","o","n">>
parentCodeQuery == <<"?","p","a","r","e","n","t","C","o","d","e","=">>

PROVINCE == <<"P","R","O","V","I","N","C","E">>
DISTRICT == <<"D","I","S","T","R","I","C","T">>
SECTOR   == <<"S","E","C","T","O","R">>
CELL     == <<"C","E","L","L">>
VILLAGE  == <<"V","I","L","L","A","G","E">>

locationTypesOrder == <<PROVINCE, DISTRICT, SECTOR, CELL, VILLAGE>>

\* ------------------------------------------------------------- input rows
\* Raw Level cells of the file: recognised tags in several spellings, an
\* unrecognised tag, an empty cell, and a row without the column.
LevelInputs ==
  { <<"p","r","o","v","i","n","c","e">>,
    <<" ","D","i","s","t","r","i","c","t"," ">>,
    <<"z","o","n","e">>,
    <<>>,
    undefined }

\* Raw ParentCode cells: no column, a blank cell, a code that needs escaping.
ParentInputs == { undefined, <<" ">>, <<"R","&","1">> }

\* LocationCode and LocationName of the n-th data row (codes are unique).
codeOfRow(n) == <<"R","W", digitChars[n + 1]>>
nameOfRow(n) == <<"N", digitChars[n + 1]>>

RowInputs(n) ==
  { [Level |-> l, LocationCode |-> codeOfRow(n),
     LocationName |-> nameOfRow(n), ParentCode |-> p] :
      l \in LevelInputs, p \in ParentInputs }

\* Results of one axios.post: a 2xx response fulfils the promise, anything
\* else rejects it with an error carrying (or not) response and request.
Outcomes ==
  { [fulfilled |-> TRUE,  hasResponse |-> TRUE,  hasRequest |-> TRUE,  status |-> 200],
    [fulfilled |-> FALSE, hasResponse |-> TRUE,  hasRequest |-> TRUE,  status |-> 400],
    [fulfilled |-> FALSE, hasResponse |-> TRUE,  hasRequest |-> FALSE, status |-> 500],
    [fulfilled |-> FALSE, hasResponse |-> FALSE, hasRequest |-> TRUE,  status |-> 0],
    [fulfilled |-> FALSE, hasResponse |-> FALSE, hasRequest |-> FALSE, status |-> 0] }

NoOutcome ==
  [fulfilled |-> FALSE, hasResponse |-> FALSE, hasRequest |-> FALSE, status |-> -1]

\* ------------------------------------------------------------ readCsvFile
\* The 'data' handler's clean-up loop: every string value is trimmed.
trimRow(data) ==
  [key \in DOMAIN data |->
     IF IsString(data[key]) THEN trim(data[key]) ELSE data[key]]

\* ------------------------------------------------------ populateLocations
\* The sort comparator.  a.Level.toUpperCase() throws a TypeError when the
\* level is undefined; the catch block logs and returns nothing.
compareFn(a, b) ==
  IF ~IsString(a.Level) \/ ~IsString(b.Level)
    THEN [returned |-> FALSE, value |-> 0]
    ELSE LET levelA == indexOf(locationTypesOrder, toUpperCase(a.Level))
             levelB == indexOf(locationTypesOrder, toUpperCase(b.Level))
         IN  [returned |-> TRUE, value |-> levelA - levelB]

\* How Array.prototype.sort reads the comparator's result: ToNumber, with
\* NaN (from undefined) taken as +0.
SortCompare(x, y) ==
  LET v == compareFn(x, y) IN IF v.returned THEN v.value ELSE 0

Reverse(s) == [i \in 1..Len(s) |-> s[Len(s) + 1 - i]]

\* Array.prototype.sort as the Node.js runtime (V8) performs it on arrays
\* shorter than 64 elements: find the initial run (reversing a strictly
\* descending one), then binary insertion of the remaining elements.
\* Positions are 1-based here.  RunLength returns the length of the run that
\* starts at position 1, idx being the next position to look at.
RECURSIVE RunLength(_, _, _)
RunLength(arr, idx, isDescending) ==
  IF idx > Len(arr) THEN idx - 1
  ELSE LET order == SortCompare(arr[idx], arr[idx - 1])
       IN  IF (isDescending /\ order >= 0) \/ (~isDescending /\ order < 0)
             THEN idx - 1
             ELSE RunLength(arr, idx + 1, isDescending)

\* Insertion point of pivot in arr[left .. right-1].
RECURSIVE BinarySearch(_, _, _, _)
BinarySearch(arr, pivot, left, right) ==
  IF left >= right THEN left
  ELSE LET mid   == left + ((right - left) \div 2)
           order == SortCompare(pivot, arr[mid])
       IN  IF order < 0 THEN BinarySearch(arr, pivot, left, mid)
                        ELSE BinarySearch(arr, pivot, mid + 1, right)

RECURSIVE BinaryInsertionSort(_, _)
BinaryInsertionSort(arr, start) ==
  IF start > Len(arr) THEN arr
  ELSE LET pivot == arr[start]
           left  == BinarySearch(arr, pivot, 1, start)
           moved == SubSeq(arr, 1, left - 1) \o <<pivot>>
                      \o SubSeq(arr, left, start - 1)
                      \o SubSeq(arr, start + 1, Len(arr))
       IN  BinaryInsertionSort(moved, start + 1)

ArraySort(arr) ==
  IF Len(arr) < 2 THEN arr
  ELSE LET isDescending == SortCompare(arr[2], arr[1]) < 0
           runLength    == RunLength(arr, 3, isDescending)
           withRun      == IF isDescending
                             THEN Reverse(SubSeq(arr, 1, runLength))
                                    \o SubSeq(arr, runLength + 1, Len(arr))
                             ELSE arr
       IN  BinaryInsertionSort(withRun, runLength + 1)

\* The request body.
Payload(location) ==
  [locationCode |-> location.LocationCode,
   locationType |-> toUpperCase(location.Level),
   locationName |-> location.LocationName]

\* ApiUrl with the parent code appended as it stands.
ApiUrlUnescaped(location) ==
  IF Truthy(location.ParentCode) /\ Len(location.ParentCode) > 0
    THEN API_BASE_URL \o saveLocationPath \o parentCodeQuery
           \o location.ParentCode
    ELSE API_BASE_URL \o saveLocationPath

\* The request address, with the parent code as a query parameter if any.
ApiUrl(location) ==
  IF Truthy(location.ParentCode) /\ Len(location.ParentCode) > 0
    THEN API_BASE_URL \o saveLocationPath \o parentCodeQuery
           \o encodeURIComponent(location.ParentCode)
    ELSE API_BASE_URL \o saveLocationPath

\* Report with error.request tested before error.response.
ReportRequestFirst(outcome) ==
  IF outcome.fulfilled THEN "SUCCESS"
  ELSE IF outcome.hasRequest THEN "ERROR: No response received"
  ELSE IF outcome.hasResponse THEN "ERROR saving"
  ELSE "ERROR: Request setup failed"

\* The console line the try/catch around axios.post writes for an outcome.
Report(outcome) ==
  IF outcome.fulfilled THEN "SUCCESS"
  ELSE IF outcome.hasResponse THEN "ERROR saving"
  ELSE IF outcome.hasRequest THEN "ERROR: No response received"
  ELSE "ERROR: Request setup failed"

\* ------------------------------------------------------------------ state
VARIABLES
  pc,          \* where main is: reading, loaded, populate, loop, awaitPost,
               \* pause, loadRejected, populateRejected, mainReturned, exited
  results,     \* readCsvFile's results array, later locationsData
  idx,         \* number of records the for-of loop has gone past
  inflight,    \* requests handed to axios.post and not yet settled
  requests,    \* every request issued so far, in order
  lastOutcome, \* how the latest settled request ended, NoOutcome before
  lastReport,  \* console line of the latest settled request, "" before
  pauses,      \* number of 100 ms pauses completed
  sequenced,   \* the sort has returned
  finished,    \* 'Population process finished.' was logged
  loadError,   \* the read stream emitted 'error'
  caught,      \* what main's catch block caught: "none", "load", "TypeError"
  exitCode     \* exit code of the process, -1 while it runs

vars == <<pc, results, idx, inflight, requests, lastOutcome, lastReport,
          pauses, sequenced, finished, loadError, caught, exitCode>>

Init ==
  /\ pc = "reading"
  /\ results = <<>>
  /\ idx = 0
  /\ inflight = {}
  /\ requests = <<>>
  /\ lastOutcome = NoOutcome
  /\ lastReport = ""
  /\ pauses = 0
  /\ loadError = FALSE
  /\ sequenced = FALSE
  /\ finished = FALSE
  /\ caught = "none"
  /\ exitCode = -1

\* readCsvFile, 'data' event: trim the row's strings and push it.
OnData ==
  /\ pc = "reading"
  /\ Len(results) < MaxRows
  /\ \E data \in RowInputs(Len(results) + 1) :
       results' = Append(results, trimRow(data))
  /\ UNCHANGED <<pc, idx, inflight, requests, lastOutcome, lastReport, pauses,
                 sequenced, finished, loadError, caught, exitCode>>

\* readCsvFile, 'end' event: resolve(results).
OnEnd ==
  /\ pc = "reading"
  /\ pc' = "loaded"
  /\ UNCHANGED <<results, idx, inflight, requests, lastOutcome, lastReport, pauses,
                 sequenced, finished, loadError, caught, exitCode>>

\* OnError resolving with the rows read so far instead of rejecting.
OnErrorResolves ==
  /\ pc = "reading"
  /\ pc' = "loaded"
  /\ loadError' = TRUE
  /\ UNCHANGED <<results, idx, inflight, requests, lastOutcome, lastReport, pauses,
                 sequenced, finished, caught, exitCode>>

\* readCsvFile, 'error' event: reject(error); the rows read so far are lost.
OnError ==
  /\ pc = "reading"
  /\ pc' = "loadRejected"
  /\ loadError' = TRUE
  /\ UNCHANGED <<results, idx, inflight, requests, lastOutcome, lastReport, pauses,
                 sequenced, finished, caught, exitCode>>

\* main after await readCsvFile(): populate, or warn about an empty file.
MainAfterLoad ==
  /\ pc = "loaded"
  /\ pc' = IF Len(results) > 0 THEN "populate" ELSE "mainReturned"
  /\ UNCHANGED <<results, idx, inflight, requests, lastOutcome, lastReport, pauses,
                 sequenced, finished, loadError, caught, exitCode>>

\* populateLocations: locationsData.sort(...), in place.
Sequence ==
  /\ pc = "populate"
  /\ results' = ArraySort(results)
  /\ sequenced' = TRUE
  /\ idx' = 0
  /\ pc' = "loop"
  /\ UNCHANGED <<inflight, requests, lastOutcome, lastReport, pauses, finished, loadError, caught,
                 exitCode>>

\* Attempt without the await: the loop goes on while the request is out.
AttemptNoAwait ==
  /\ pc = "loop"
  /\ idx < Len(results)
  /\ LET location == results[idx + 1]
     IN  IF ~IsString(location.Level)
           THEN /\ pc' = "populateRejected"
                /\ UNCHANGED <<inflight, requests, idx>>
           ELSE LET request == [url  |-> ApiUrl(location),
                                body |-> Payload(location)]
                IN  /\ inflight' = inflight \cup {request}
                    /\ requests' = Append(requests, request)
                    /\ idx' = idx + 1
                    /\ pc' = "loop"
  /\ UNCHANGED <<results, lastOutcome, lastReport, pauses, sequenced, finished,
                 loadError, caught, exitCode>>

\* One pass of the for-of loop up to await axios.post: build the payload
\* (Level.toUpperCase() is outside the try and throws on undefined), build
\* the address, issue the request.
Attempt ==
  /\ pc = "loop"
  /\ idx < Len(results)
  /\ LET location == results[idx + 1]
     IN  IF ~IsString(location.Level)
           THEN /\ pc' = "populateRejected"
                /\ UNCHANGED <<inflight, requests>>
           ELSE LET request == [url  |-> ApiUrl(location),
                                body |-> Payload(location)]
                IN  /\ inflight' = inflight \cup {request}
                    /\ requests' = Append(requests, request)
                    /\ pc' = "awaitPost"
  /\ UNCHANGED <<results, idx, lastOutcome, lastReport, pauses, sequenced, finished,
                 loadError, caught, exitCode>>

\* PostSettles with the catch block going straight to the next record.
PostSettlesSkipPause ==
  /\ pc = "awaitPost"
  /\ \E outcome \in Outcomes :
       /\ lastOutcome' = outcome
       /\ lastReport' = Report(outcome)
       /\ IF outcome.fulfilled
            THEN pc' = "pause" /\ idx' = idx
            ELSE pc' = "loop" /\ idx' = idx + 1
  /\ inflight' = inflight \ {requests[idx + 1]}
  /\ UNCHANGED <<results, requests, pauses, sequenced, finished,
                 loadError, caught, exitCode>>

\* axios.post settles: log the outcome, then start the 100 ms timer.
PostSettles ==
  /\ pc = "awaitPost"
  /\ \E outcome \in Outcomes :
       /\ lastOutcome' = outcome
       /\ lastReport' = Report(outcome)
  /\ inflight' = inflight \ {requests[idx + 1]}
  /\ pc' = "pause"
  /\ UNCHANGED <<results, idx, requests, pauses, sequenced, finished,
                 loadError, caught, exitCode>>

\* The timer fires: the loop goes on to the next record.
TimerFires ==
  /\ pc = "pause"
  /\ pauses' = pauses + 1
  /\ idx' = idx + 1
  /\ pc' = "loop"
  /\ UNCHANGED <<results, inflight, requests, lastOutcome, lastReport, sequenced,
                 finished, loadError, caught, exitCode>>

\* The loop is exhausted: 'Population process finished.'
Finish ==
  /\ pc = "loop"
  /\ idx = Len(results)
  /\ finished' = TRUE
  /\ pc' = "mainReturned"
  /\ UNCHANGED <<results, idx, inflight, requests, lastOutcome, lastReport, pauses,
                 sequenced, loadError, caught, exitCode>>

\* main's catch block: console.error, and main returns normally.
MainCatch ==
  /\ pc \in {"loadRejected", "populateRejected"}
  /\ caught' = IF pc = "loadRejected" THEN "load" ELSE "TypeError"
  /\ pc' = "mainReturned"
  /\ UNCHANGED <<results, idx, inflight, requests, lastOutcome, lastReport, pauses,
                 sequenced, finished, loadError, exitCode>>

\* main()'s promise is fulfilled and nothing sets process.exitCode: the
\* process ends with code 0 once the event loop is empty.
Exit ==
  /\ pc = "mainReturned"
  /\ exitCode' = 0
  /\ pc' = "exited"
  /\ UNCHANGED <<results, idx, inflight, requests, lastOutcome, lastReport, pauses,
                 sequenced, finished, loadError, caught>>

Next ==
  \/ OnData
  \/ OnEnd
  \/ OnError
  \/ MainAfterLoad
  \/ Sequence
  \/ Attempt
  \/ PostSettles
  \/ TimerFires
  \/ Finish
  \/ MainCatch
  \/ Exit

Spec == Init /\ [][Next]_vars

TypeOK ==
  /\ pc \in {"reading", "loaded", "populate", "loop", "awaitPost", "pause",
             "loadRejected", "populateRejected", "mainReturned", "exited"}
  /\ idx \in 0..MaxRows
  /\ Len(results) <= MaxRows

\* ================================================================= claims
\* The rank table of the hierarchy.
RankTable == [t \in {PROVINCE, DISTRICT, SECTOR, CELL, VILLAGE} |->
                CASE t = PROVINCE -> 0 [] t = DISTRICT -> 1 [] t = SECTOR -> 2
                  [] t = CELL -> 3 [] t = VILLAGE -> 4]

\* A record whose level, uppercased, is one of the five tags.
Recognised(rec) ==
  IsString(rec.Level) /\ toUpperCase(rec.Level) \in DOMAIN RankTable

RankOf(rec) == RankTable[toUpperCase(rec.Level)]

\* Records of lower rank stand before records of higher rank.
RankOrdered(batch) ==
  \A i, j \in 1..Len(batch) :
    (Recognised(batch[i]) /\ Recognised(batch[j])
       /\ RankOf(batch[i]) < RankOf(batch[j])) => i < j

\* The i-th request is the one of the i-th record of the sequenced batch.
InSequencerOrder ==
  /\ Len(requests) <= Len(results)
  /\ \A i \in 1..Len(requests) :
       requests[i].body.locationCode = results[i].LocationCode

\* Reading of a request address by its receiver: the text after the first
\* '?', its first '&'-separated segment, and the percent-decoded value of
\* the parentCode parameter.
FirstIndexOf(s, c) ==
  LET hits == {i \in 1..Len(s) : s[i] = c}
  IN  IF hits = {} THEN Len(s) + 1 ELSE SetMin(hits)

PathOf(url) == SubSeq(url, 1, FirstIndexOf(url, "?") - 1)
QueryOf(url) == SubSeq(url, FirstIndexOf(url, "?") + 1, Len(url))
FirstSegment(q) == SubSeq(q, 1, FirstIndexOf(q, "&") - 1)

unescapeChar(h1, h2) ==
  CASE <<h1, h2>> = <<"2","0">> -> " "
    [] <<h1, h2>> = <<"2","5">> -> "%"
    [] <<h1, h2>> = <<"2","6">> -> "&"
    [] <<h1, h2>> = <<"3","D">> -> "="
    [] <<h1, h2>> = <<"3","F">> -> "?"
    [] <<h1, h2>> = <<"0","9">> -> "\t"
    [] OTHER -> "#"

RECURSIVE percentDecode(_)
percentDecode(s) ==
  IF s = <<>> THEN <<>>
  ELSE IF Head(s) = "%" /\ Len(s) >= 3
    THEN <<unescapeChar(s[2], s[3])>> \o percentDecode(SubSeq(s, 4, Len(s)))
    ELSE <<Head(s)>> \o percentDecode(Tail(s))

paramName == <<"p","a","r","e","n","t","C","o","d","e","=">>

HasParentParam(url) ==
  LET seg == FirstSegment(QueryOf(url))
  IN  Len(seg) >= Len(paramName) /\ SubSeq(seg, 1, Len(paramName)) = paramName

ParentParam(url) ==
  LET seg == FirstSegment(QueryOf(url))
  IN  percentDecode(SubSeq(seg, Len(paramName) + 1, Len(seg)))

\* C1: once the batch is sequenced, any two records a, b with
\* rank(a.level) < rank(b.level) stand a before b, and the requests are
\* issued in that order.
C1_RankOrderAfterSort ==
  sequenced => (RankOrdered(results) /\ InSequencerOrder)

\* C2: whatever the outcomes of the publish calls, a run that started
\* publishing ends with 'Population process finished' and with exactly one
\* request per record of the sequenced batch, in sequencer order.
C2_EveryRecordAttempted ==
  (pc = "exited" /\ sequenced) =>
    /\ finished
    /\ Len(requests) = Len(results)
    /\ InSequencerOrder

\* C3: a record whose level is unrecognised, empty or absent never makes an
\* exception escape the sequencer or the loop body, and every other record
\* is still attempted.
C3_MalformedNeverCrashes ==
  /\ pc # "populateRejected"
  /\ caught # "TypeError"
  /\ (pc = "exited" /\ sequenced) =>
       \A i \in 1..Len(results) :
         Recognised(results[i]) =>
           \E k \in 1..Len(requests) :
             requests[k].body.locationCode = results[i].LocationCode

C5_PublishOnlyAfterLoadAndSort ==
  /\ (requests # <<>> \/ inflight # {}) =>
       (sequenced /\ ~loadError /\ pc \notin {"reading", "loaded", "populate"})
  /\ loadError => (requests = <<>> /\ inflight = {} /\ ~sequenced)
  /\ (pc # "reading" /\ Len(results) = 0) => (requests = <<>> /\ ~sequenced)

C5_Witness ==
  pc = "exited" /\ loadError /\ Len(results) = 2 /\ requests = <<>>

\* C6: at most one request is in flight, it is the latest one issued, and
\* main is suspended on it; every earlier request has settled and has been
\* reported.
C6_OneRequestInFlight ==
  /\ Cardinality(inflight) <= 1
  /\ inflight # {} =>
       (pc = "awaitPost" /\ inflight = {requests[Len(requests)]})
  /\ pc = "awaitPost" => Len(requests) = idx + 1
  /\ Len(requests) >= 2 => lastOutcome # NoOutcome

C6_Witness ==
  pc = "awaitPost" /\ Len(requests) = 2 /\ Cardinality(inflight) = 1

\* C7: the body of the request of a record is exactly its code, its
\* uppercased level and its name; the address carries a parentCode
\* parameter, equal to the record's ParentCode, exactly when the record has
\* a non-empty ParentCode, and is the bare saveLocation address otherwise.
C7_RequestConstruction ==
  \A i \in 1..Len(requests) :
    LET rec == results[i]
        req == requests[i]
        hasParent == IsString(rec.ParentCode) /\ Len(rec.ParentCode) > 0
    IN  /\ DOMAIN req.body = {"locationCode", "locationType", "locationName"}
        /\ req.body.locationCode = rec.LocationCode
        /\ req.body.locationName = rec.LocationName
        /\ Len(req.body.locationType) = Len(rec.Level)
        /\ \A k \in 1..Len(rec.Level) :
             /\ req.body.locationType[k] \notin SeqToSet(lowerChars)
             /\ upperChar(rec.Level[k]) = req.body.locationType[k]
        /\ PathOf(req.url) = API_BASE_URL \o saveLocationPath
        /\ HasParentParam(req.url) <=> hasParent
        /\ hasParent => ParentParam(req.url) = rec.ParentCode
        /\ ~hasParent => req.url = API_BASE_URL \o saveLocationPath

C7_Witness ==
  /\ Len(requests) = 2
  /\ HasParentParam(requests[1].url)
  /\ ParentParam(requests[1].url) = <<"R","&","1">>
  /\ requests[1].body.locationType = DISTRICT
  /\ ~HasParentParam(requests[2].url)

\* C8: a pause has been completed after every settled attempt, whatever its
\* outcome, before the next one begins.
C8_PauseAfterEveryAttempt ==
  /\ Len(requests) <= pauses + 1
  /\ pc \in {"loop", "populateRejected"} => pauses = Len(requests)
  /\ finished => pauses = Len(requests)
  /\ pc \in {"awaitPost", "pause"} => pauses = Len(requests) - 1

C8_Witness ==
  /\ pc = "awaitPost"
  /\ pauses = 1
  /\ Len(requests) = 2
  /\ ~lastOutcome.fulfilled

\* C9: a settled attempt is reported as ServerRejected exactly when a
\* non-2xx response came, as NoResponse when the request was sent and no
\* response came, as RequestSetupFailed when there is neither, and as a
\* success otherwise; after any of them the loop pauses and goes on.
ServerRejected == "ERROR saving"
NoResponse == "ERROR: No response received"
RequestSetupFailed == "ERROR: Request setup failed"

C9_ErrorClassification ==
  /\ lastOutcome # NoOutcome =>
       /\ lastReport \in {"SUCCESS", ServerRejected, NoResponse, RequestSetupFailed}
       /\ lastReport = "SUCCESS" <=>
            (lastOutcome.hasResponse /\ lastOutcome.status \in 200..299)
       /\ lastReport = ServerRejected <=>
            (lastOutcome.hasResponse /\ lastOutcome.status \notin 200..299)
       /\ lastReport = NoResponse <=>
            (~lastOutcome.hasResponse /\ lastOutcome.hasRequest)
       /\ lastReport = RequestSetupFailed <=>
            (~lastOutcome.hasResponse /\ ~lastOutcome.hasRequest)
  /\ pc = "pause" => (lastOutcome # NoOutcome /\ Len(requests) = idx + 1)
  /\ (lastOutcome # NoOutcome /\ pc = "exited" /\ caught = "none") =>
       (finished /\ Len(requests) = Len(results))

C9_Witness ==
  /\ pc = "awaitPost"
  /\ Len(requests) = 2
  /\ lastReport = ServerRejected
  /\ lastOutcome.hasRequest

\* C10: in a batch that holds malformed records too, recognised records of
\* lower rank still stand before recognised records of higher rank once the
\* batch is sequenced.
C10_WellFormedOrderAmongMalformed ==
  (sequenced /\ \E k \in 1..Len(results) : ~Recognised(results[k]))
    => RankOrdered(results)

====
